---- MODULE Spec2Model ----
(***************************************************************************)
(* Model of pkg/tool/exec/exec.go: the tool/exec.Run task.                 *)
(*                                                                         *)
(* Text is a sequence of tokens.  A token is one character ("a", " ",      *)
(* "\t", "=", a digit, ...) or, for the fixed wording of a message, one    *)
(* atom ("command ", " failed: ", "exit status 1").  A cue.Value is a      *)
(* record tagged by its kind in field k.                                   *)
(***************************************************************************)
EXTENDS Integers, Sequences, FiniteSets, TLC

VARIABLES
  obj,       \* ctx.Obj unified with the schema: the fields Run reads
  ctxDone,   \* ctx.Context is cancelled
  cancelAt,  \* history: where Run was when the context was cancelled
  pc,        \* "call" | "run" | "wait" | "done"; "resolve" | "resolved" for mkCommand alone
  resolved,  \* what mkCommand returned
  cmd,       \* the exec.Cmd and Run's locals (captureOut, outVal, mustSucceed, doc, ...)
  proc,      \* the child process: "none" | "running" | "exited"
  exit,      \* how the child ended: "none" | "ok" | "fail" | "killed"
  pipeHeld,  \* a descendant of the child holds a captured stream's pipe open
  wrote,     \* history: what the child wrote to its stdout and stderr
  buf,       \* the bytes.Buffers stdout and stderr of Run
  amb,       \* what reached ctx.Stdout and ctx.Stderr
  runCalls,  \* calls of cmd.Run
  started,   \* child processes started
  runErr,    \* the error cmd.Run() returned (<<>> for nil)
  ret        \* what Run returned

vars == <<obj, ctxDone, cancelAt, pc, resolved, cmd, proc, exit, pipeHeld, wrote, buf,
          amb, runCalls, started, runErr, ret>>

\* ------------------------------------------------------------------ bounds
MaxLen == 5     \* longest string cmd
MaxList == 3    \* longest list cmd
MaxEnv == 2     \* most env entries
MaxOut == 2     \* most bytes the child writes to one stream

\* ------------------------------------------------------------------- text
SP == " "
TAB == "\t"
Alphabet == {"a", "b", SP, TAB}

RECURSIVE SeqsUpTo(_, _)
SeqsUpTo(S, n) ==
  IF n = 0 THEN {<<>>}
  ELSE LET shorter == SeqsUpTo(S, n - 1)
       IN shorter \cup {Append(s, x) : s \in {t \in shorter : Len(t) = n - 1}, x \in S}

\* unicode.IsSpace, on the characters of Alphabet
IsSpace(c) == c \in {SP, TAB}

RECURSIVE TokenLen(_)
TokenLen(s) ==
  IF s = <<>> \/ IsSpace(Head(s)) THEN 0 ELSE 1 + TokenLen(Tail(s))

\* strings.Fields: the maximal runs of non-space characters, in order
RECURSIVE Fields(_)
Fields(s) ==
  IF s = <<>> THEN <<>>
  ELSE IF IsSpace(Head(s)) THEN Fields(Tail(s))
  ELSE LET n == TokenLen(s)
       IN <<SubSeq(s, 1, n)>> \o Fields(SubSeq(s, n + 1, Len(s)))

\* strconv.Quote's escape of one character (what %q writes for it)
EscapeChar(c) ==
  IF c = TAB THEN <<"\\", "t">>
  ELSE IF c = "\"" THEN <<"\\", "\"">>
  ELSE IF c = "\\" THEN <<"\\", "\\">>
  ELSE <<c>>

RECURSIVE EscapeAll(_)
EscapeAll(s) == IF s = <<>> THEN <<>> ELSE EscapeChar(Head(s)) \o EscapeAll(Tail(s))

\* fmt's %q of a string
Quote(s) == <<"\"">> \o EscapeAll(s) \o <<"\"">>

\* strings.Contains on token sequences
Contains(hay, needle) ==
  \E i \in 1..(Len(hay) + 1) :
     /\ i + Len(needle) - 1 <= Len(hay)
     /\ SubSeq(hay, i, i + Len(needle) - 1) = needle

DigitChars == <<"0", "1", "2", "3", "4", "5", "6", "7", "8", "9">>

RECURSIVE NatText(_)
NatText(n) ==
  IF n < 10 THEN <<DigitChars[n + 1]>>
  ELSE NatText(n \div 10) \o <<DigitChars[(n % 10) + 1]>>

Abs(n) == IF n < 0 THEN -n ELSE n
SignText(n) == IF n < 0 THEN <<"-">> ELSE <<>>

\* fmt.Sprint of a concrete cue number: an int, or a float given in tenths
NumText(v) ==
  IF v.k = "int" THEN SignText(v.n) \o NatText(Abs(v.n))
  ELSE SignText(v.n) \o NatText(Abs(v.n) \div 10) \o <<".">> \o NatText(Abs(v.n) % 10)

\* ------------------------------------------------------------- cue values
Absent == [k |-> "bottom"]            \* no such field: Err() is non-nil
Null == [k |-> "null"]
VStr(s) == [k |-> "string", s |-> s]
VInt(n) == [k |-> "int", n |-> n]
VFloat(n) == [k |-> "float", n |-> n]
VBool(b) == [k |-> "bool", b |-> b]
VList(l) == [k |-> "list", l |-> l]
VStruct(f) == [k |-> "struct", f |-> f]
VType(t) == [k |-> "type", t |-> t]    \* a non-concrete value of incomplete kind t

\* cue.Value.String
IsString(v) == v.k = "string"

\* ------------------------------------------------------------- mkCommand
ErrLookup == <<"could not find field">>
ErrEmptyList == <<"empty command list">>
ErrEmptyCommand == <<"empty command">>
ErrElement == <<"cannot use value as string">>
ErrEnv == <<"invalid environment variable value">>

Ok(bin, args, doc) ==
  [st |-> "ok", err |-> <<>>, bin |-> bin, args |-> args, doc |-> doc, env |-> <<>>]
Fail(e) ==
  [st |-> "err", err |-> e, bin |-> <<>>, args |-> <<>>, doc |-> <<>>, env |-> <<>>]
Panic ==
  [st |-> "panic", err |-> <<>>, bin |-> <<>>, args |-> <<>>, doc |-> <<>>, env |-> <<>>]

\* case cue.StringKind: list[0] of an empty strings.Fields result is an
\* index out of range, a run-time panic
CmdString(str) ==
  LET list == Fields(str)
  IN IF list = <<>> THEN Panic
     ELSE Ok(list[1], Tail(list), str)

RECURSIVE JoinArgs(_)
JoinArgs(l) == IF l = <<>> THEN <<>> ELSE <<SP>> \o Head(l).s \o JoinArgs(Tail(l))

\* case cue.ListKind
CmdListReversed(l) ==
  IF l = <<>> THEN Fail(ErrEmptyList)
  ELSE IF \E i \in 1..Len(l) : ~IsString(l[i]) THEN Fail(ErrElement)
  ELSE Ok(l[1].s, [i \in 1..(Len(l) - 1) |-> l[Len(l) + 1 - i].s],
          l[1].s \o JoinArgs(Tail(l)))
CmdList(l) ==
  IF l = <<>> THEN Fail(ErrEmptyList)
  ELSE IF \E i \in 1..Len(l) : ~IsString(l[i]) THEN Fail(ErrElement)
  ELSE Ok(l[1].s, [i \in 1..(Len(l) - 1) |-> l[i + 1].s],
          l[1].s \o JoinArgs(Tail(l)))

\* lines 132-167: the binary, the arguments and the display form
CmdPart(v) ==
  IF v.k = "bottom" THEN Fail(ErrLookup)
  ELSE LET r == IF v.k = "string" THEN CmdString(v.s)
                ELSE IF v.k = "list" THEN CmdList(v.l)
                ELSE Ok(<<>>, <<>>, <<>>)
       IN IF r.st = "ok" /\ r.bin = <<>> THEN Fail(ErrEmptyCommand) ELSE r

\* the list case of env: every element must be a string, taken verbatim
EnvList(l) ==
  IF \E i \in 1..Len(l) : ~IsString(l[i]) THEN [ok |-> FALSE, env |-> <<>>]
  ELSE [ok |-> TRUE, env |-> [i \in 1..Len(l) |-> l[i].s]]

IsNumber(v) == v.k \in {"int", "float"}
EnvValueText(v) == IF v.k = "string" THEN v.s ELSE NumText(v)

\* the struct case of env: "LABEL=VALUE" per field, in field order
EnvStructNoLabel(f) ==
  IF \E i \in 1..Len(f) : ~(IsString(f[i].v) \/ IsNumber(f[i].v))
  THEN [ok |-> FALSE, env |-> <<>>]
  ELSE [ok |-> TRUE, env |-> [i \in 1..Len(f) |-> <<"=">> \o EnvValueText(f[i].v)]]
EnvStruct(f) ==
  IF \E i \in 1..Len(f) : ~(IsString(f[i].v) \/ IsNumber(f[i].v))
  THEN [ok |-> FALSE, env |-> <<>>]
  ELSE [ok |-> TRUE,
        env |-> [i \in 1..Len(f) |-> f[i].label \o <<"=">> \o EnvValueText(f[i].v)]]

\* lines 173-200: env.List() iterates nothing unless env is a list, and
\* env.Fields() nothing unless it is a struct
EnvPart(v) ==
  IF v.k = "list" THEN EnvList(v.l)
  ELSE IF v.k = "struct" THEN EnvStruct(v.f)
  ELSE [ok |-> TRUE, env |-> <<>>]

mkCommand(o) ==
  LET c == CmdPart(o.cmd)
      e == EnvPart(o.env)
  IN IF c.st # "ok" THEN c
     ELSE IF ~e.ok THEN Fail(ErrEnv)
     ELSE [c EXCEPT !.env = e.env]

\* -------------------------------------------------------------------- Run
\* lines 54-60: the stream closure; ok is false for a missing field and for null
streamNullCaptures(v) == v.k # "bottom"
stream(v) == ~(v.k = "bottom" \/ v.k = "null")

\* cue.Value.Reader: the bytes of a concrete string or bytes value
ReaderOk(v) == v.k \in {"string", "bytes"}

\* cue.Value.Bool, lines 83-87: an error unless the value is a concrete bool
ReadBoolAbsentFalse(v) ==
  [ok |-> v.k \in {"bool", "bottom"}, b |-> v.k = "bool" /\ v.b]
ReadBool(v) == [ok |-> v.k = "bool", b |-> v.k = "bool" /\ v.b]

\* cue.Value.IncompleteKind
IncompleteKind(v) == IF v.k = "type" THEN v.t ELSE v.k

NoVal == [t |-> "none", v |-> <<>>]
Nil == [t |-> "nil", v |-> <<>>]

\* lines 118-126
toStreamOutputAlwaysString(v, b) ==
  IF IncompleteKind(v) \in {"string", "bytes"} THEN [t |-> "string", v |-> b] ELSE Nil
toStreamOutput(v, b) ==
  IF IncompleteKind(v) = "string" THEN [t |-> "string", v |-> b]
  ELSE IF IncompleteKind(v) = "bytes" THEN [t |-> "bytes", v |-> b]
  ELSE Nil

ErrInput == <<"invalid input">>
ErrBool == <<"invalid bool value">>

NoCmd ==
  [bin |-> <<>>, args |-> <<>>, env |-> <<>>, doc |-> <<>>, stdin |-> "none",
   stdout |-> "none", stderr |-> "none", outVal |-> Absent, errVal |-> Absent,
   mustSucceed |-> FALSE]

\* lines 45-89: everything Run does before cmd.Run()
Prepare(o) ==
  LET r == mkCommand(o)
      m == ReadBool(o.mustSucceed)
  IN IF r.st # "ok" THEN [st |-> r.st, err |-> r.err, cmd |-> NoCmd]
     ELSE IF stream(o.stdin) /\ ~ReaderOk(o.stdin)
       THEN [st |-> "err", err |-> ErrInput, cmd |-> NoCmd]
     ELSE IF ~m.ok THEN [st |-> "err", err |-> ErrBool, cmd |-> NoCmd]
     ELSE [st |-> "ok", err |-> <<>>,
           cmd |-> [bin |-> r.bin, args |-> r.args, env |-> r.env, doc |-> r.doc,
                    stdin |-> IF stream(o.stdin) THEN "reader" ELSE "ambient",
                    stdout |-> IF stream(o.stdout) THEN "buffer" ELSE "ambient",
                    stderr |-> IF stream(o.stderr) THEN "buffer" ELSE "ambient",
                    outVal |-> IF stream(o.stdout) THEN o.stdout ELSE Absent,
                    errVal |-> IF stream(o.stderr) THEN o.stderr ELSE Absent,
                    mustSucceed |-> m.b]]

NoUpdate == [success |-> FALSE, keys |-> {}, stdout |-> NoVal, stderr |-> NoVal]
NoRet == [kind |-> "none", update |-> NoUpdate, err |-> <<>>]
RetErr(e) == [kind |-> "error", update |-> NoUpdate, err |-> e]
RetPanic == [kind |-> "panic", update |-> NoUpdate, err |-> <<>>]
RetUpdate(u) == [kind |-> "update", update |-> u, err |-> <<>>]

\* line 109: fmt.Errorf("command %q failed: %v", doc, err)
CommandFailed(doc, e) == <<"command ">> \o Quote(doc) \o <<" failed: ">> \o e

\* lines 97-100: an empty captured stderr of a failed run gets the error's text
StderrFinalNoFallback(c, e, b) == b.err
StderrFinal(c, e, b) ==
  IF c.stderr = "buffer" /\ b.err = <<>> /\ e # <<>> THEN e ELSE b.err

\* lines 91-112: e is the error of cmd.Run() (<<>> for nil), b the buffers
FinalizeIgnoreMust(c, e, b) ==
  LET update == [success |-> e = <<>>,
                 keys |-> {k \in {"stdout"} : c.stdout = "buffer"}
                          \cup {k \in {"stderr"} : c.stderr = "buffer"},
                 stdout |-> IF c.stdout = "buffer" THEN toStreamOutput(c.outVal, b.out)
                            ELSE NoVal,
                 stderr |-> IF c.stderr = "buffer"
                            THEN toStreamOutput(c.errVal, StderrFinal(c, e, b))
                            ELSE NoVal]
  IN RetUpdate(update)
Finalize(c, e, b) ==
  LET update == [success |-> e = <<>>,
                 keys |-> {k \in {"stdout"} : c.stdout = "buffer"}
                          \cup {k \in {"stderr"} : c.stderr = "buffer"},
                 stdout |-> IF c.stdout = "buffer" THEN toStreamOutput(c.outVal, b.out)
                            ELSE NoVal,
                 stderr |-> IF c.stderr = "buffer"
                            THEN toStreamOutput(c.errVal, StderrFinal(c, e, b))
                            ELSE NoVal]
  IN IF e = <<>> THEN RetUpdate(update)
     ELSE IF c.mustSucceed THEN RetErr(CommandFailed(c.doc, e))
     ELSE RetUpdate(update)

\* os/exec errors
ErrCanceled == <<"context canceled">>
ErrNotFound == <<"executable file not found">>
ErrExit == <<"exit status 1">>
ErrKilled == <<"signal: killed">>

\* exec.Cmd.Wait's error for the way the child ended
WaitErr(x) == IF x = "ok" THEN <<>> ELSE IF x = "killed" THEN ErrKilled ELSE ErrExit

\* ---------------------------------------------------------------- inputs
StreamVals == {Absent, Null, VType("string"), VType("bytes"), VType("string|bytes")}
StdinVals == {Absent, Null, VStr(<<"a">>), VInt(1)}
BoolVals == {Absent, VBool(TRUE), VBool(FALSE), VStr(<<"a">>)}
RunCmds ==
  {Absent, VInt(1), VStr(<<>>), VStr(<<"a">>), VStr(<<"a", TAB, "b">>), VList(<<>>),
   VList(<<VInt(1)>>), VList(<<VStr(<<"a">>), VStr(<<"b">>)>>)}
RunEnvs ==
  {Absent, VStruct(<<[label |-> <<"K">>, v |-> VInt(7)]>>), VList(<<VInt(1)>>)}

Machine0 ==
  /\ ctxDone = FALSE
  /\ cancelAt = "never"
  /\ resolved = Fail(<<>>)
  /\ cmd = NoCmd
  /\ proc = "none"
  /\ exit = "none"
  /\ pipeHeld = FALSE
  /\ wrote = [out |-> <<>>, err |-> <<>>]
  /\ buf = [out |-> <<>>, err |-> <<>>]
  /\ amb = [out |-> <<>>, err |-> <<>>]
  /\ runCalls = 0
  /\ started = 0
  /\ runErr = <<>>
  /\ ret = NoRet

Init ==
  /\ obj \in [cmd : RunCmds, env : RunEnvs, stdin : StdinVals, stdout : StreamVals,
              stderr : StreamVals, mustSucceed : BoolVals]
  /\ pc = "call"
  /\ Machine0

\* --------------------------------------------------------------- actions
\* Run, lines 45-89: resolve, wire the streams, read mustSucceed
Call ==
  /\ pc = "call"
  /\ LET p == Prepare(obj)
     IN /\ resolved' = mkCommand(obj)
        /\ cmd' = p.cmd
        /\ IF p.st = "ok" THEN pc' = "run" /\ ret' = ret
           ELSE /\ pc' = "done"
                /\ ret' = IF p.st = "panic" THEN RetPanic ELSE RetErr(p.err)
  /\ UNCHANGED <<runErr, obj, ctxDone, cancelAt, proc, exit, pipeHeld, wrote, buf, amb,
                 runCalls, started>>

\* the caller cancels ctx.Context
Cancel ==
  /\ ~ctxDone
  /\ pc \in {"call", "run", "wait"}
  /\ ctxDone' = TRUE
  /\ cancelAt' = IF pc \in {"call", "run"} THEN "before"
                 ELSE IF proc = "running" THEN "running" ELSE "after"
  /\ UNCHANGED <<runErr, obj, pc, resolved, cmd, proc, exit, pipeHeld, wrote, buf, amb,
                 runCalls, started, ret>>

\* what line 90's cmd.Run() leaves behind when it returns error e
Return(e) ==
  /\ runErr' = e
  /\ ret' = Finalize(cmd, e, buf)
  /\ buf' = [buf EXCEPT !.err = StderrFinal(cmd, e, buf)]
  /\ pc' = "done"

\* exec.Cmd.Start refuses a context that is already done
StartCtxErr(done) == IF done THEN {ErrCanceled} ELSE {}

\* line 90, cmd.Run(): Start fails (the binary was not found, or the context is
\* done), no process exists, and Run finishes at once
StartFail ==
  /\ pc = "run"
  /\ \E e \in StartCtxErr(ctxDone) \cup {ErrNotFound} : Return(e)
  /\ runCalls' = runCalls + 1
  /\ UNCHANGED <<obj, ctxDone, cancelAt, resolved, cmd, proc, exit, pipeHeld, wrote,
                 amb, started>>

\* line 90, cmd.Run(): Start spawns the child
StartOk ==
  /\ pc = "run"
  /\ StartCtxErr(ctxDone) = {}
  /\ pc' = "wait"
  /\ proc' = "running"
  /\ runCalls' = runCalls + 1
  /\ started' = started + 1
  /\ UNCHANGED <<runErr, obj, ctxDone, cancelAt, resolved, cmd, exit, pipeHeld, wrote, buf,
                 amb, ret>>

\* the child writes one byte to its stdout: to cmd.Stdout, the buffer or ctx.Stdout
ChildWriteOut ==
  /\ proc = "running"
  /\ Len(wrote.out) < MaxOut
  /\ wrote' = [wrote EXCEPT !.out = Append(@, "o")]
  /\ IF cmd.stdout = "buffer"
     THEN buf' = [buf EXCEPT !.out = Append(@, "o")] /\ amb' = amb
     ELSE amb' = [amb EXCEPT !.out = Append(@, "o")] /\ buf' = buf
  /\ UNCHANGED <<runErr, obj, ctxDone, cancelAt, pc, resolved, cmd, proc, exit, pipeHeld,
                 runCalls, started, ret>>

\* the child writes one byte to its stderr
ChildWriteErr ==
  /\ proc = "running"
  /\ Len(wrote.err) < MaxOut
  /\ wrote' = [wrote EXCEPT !.err = Append(@, "e")]
  /\ IF cmd.stderr = "buffer"
     THEN buf' = [buf EXCEPT !.err = Append(@, "e")] /\ amb' = amb
     ELSE amb' = [amb EXCEPT !.err = Append(@, "e")] /\ buf' = buf
  /\ UNCHANGED <<runErr, obj, ctxDone, cancelAt, pc, resolved, cmd, proc, exit, pipeHeld,
                 runCalls, started, ret>>

\* the child leaves a descendant that inherits the pipe of a captured stream
ChildFork ==
  /\ proc = "running"
  /\ ~pipeHeld
  /\ cmd.stdout = "buffer" \/ cmd.stderr = "buffer"
  /\ pipeHeld' = TRUE
  /\ UNCHANGED <<runErr, obj, ctxDone, cancelAt, pc, resolved, cmd, proc, exit, wrote, buf,
                 amb, runCalls, started, ret>>

\* that descendant closes the pipe, or ends
DescendantClose ==
  /\ pipeHeld
  /\ pipeHeld' = FALSE
  /\ UNCHANGED <<runErr, obj, ctxDone, cancelAt, pc, resolved, cmd, proc, exit, wrote, buf,
                 amb, runCalls, started, ret>>

\* the child ends on its own
ChildExit ==
  /\ proc = "running"
  /\ proc' = "exited"
  /\ \E x \in {"ok", "fail"} : exit' = x
  /\ UNCHANGED <<runErr, obj, ctxDone, cancelAt, pc, resolved, cmd, pipeHeld, wrote, buf,
                 amb, runCalls, started, ret>>

\* line 169, exec.CommandContext: the context is done while the child runs, and
\* os/exec kills the child
KillNever == FALSE /\ UNCHANGED vars
Kill ==
  /\ pc = "wait"
  /\ proc = "running"
  /\ ctxDone
  /\ proc' = "exited"
  /\ exit' = "killed"
  /\ UNCHANGED <<runErr, obj, ctxDone, cancelAt, pc, resolved, cmd, pipeHeld, wrote, buf,
                 amb, runCalls, started, ret>>

\* line 90, cmd.Run() returns from Wait: the child has ended and the copying of
\* the captured streams is over; then lines 91-112
WaitReturn ==
  /\ pc = "wait"
  /\ proc = "exited"
  /\ ~pipeHeld
  /\ Return(WaitErr(exit))
  /\ UNCHANGED <<obj, ctxDone, cancelAt, resolved, cmd, proc, exit, pipeHeld, wrote,
                 amb, runCalls, started>>

Next ==
  \/ Call
  \/ Cancel
  \/ StartFail
  \/ StartOk
  \/ ChildWriteOut
  \/ ChildWriteErr
  \/ ChildFork
  \/ DescendantClose
  \/ ChildExit
  \/ Kill
  \/ WaitReturn

Spec == Init /\ [][Next]_vars

\* os/exec and the Go scheduler run a step that stays possible: Run goes on to
\* cmd.Run(), the context watcher kills the child, Wait returns.  Nothing makes
\* the child end, write or fork, the caller cancel, or a descendant close a pipe.
LiveInit ==
  /\ obj \in [cmd : RunCmds, env : {Absent}, stdin : {Absent, VStr(<<"a">>)},
              stdout : {Absent, VType("string")}, stderr : {Null, VType("bytes")},
              mustSucceed : BoolVals]
  /\ pc = "call"
  /\ Machine0

LiveSpec ==
  /\ LiveInit
  /\ [][Next]_vars
  /\ WF_vars(Call)
  /\ WF_vars(StartFail \/ StartOk)
  /\ WF_vars(Kill)
  /\ WF_vars(WaitReturn)

\* ------------------------------------------------- mkCommand on its own
ElemVals == {VStr(<<>>), VStr(<<"a">>), VStr(<<"b">>), VInt(1)}
AllCmds ==
  {VStr(s) : s \in SeqsUpTo(Alphabet, MaxLen)}
    \cup {VList(l) : l \in SeqsUpTo(ElemVals, MaxList)}
    \cup {Absent, VInt(1)}
FewCmds == {VStr(<<"a">>), VList(<<VStr(<<"a">>), VStr(<<"b">>)>>), VList(<<>>)}

EnvElems == {VStr(<<"K", "=", "a">>), VStr(<<>>), VInt(1)}
EnvLabels == {<<"K">>, <<"L">>, <<"M">>}
EnvVals == {VStr(<<"a">>), VInt(105), VFloat(-15), VBool(TRUE)}
EnvFields == [label : EnvLabels, v : EnvVals]
AllEnvs ==
  {VList(l) : l \in SeqsUpTo(EnvElems, MaxEnv)}
    \cup {VStruct(f) : f \in {g \in SeqsUpTo(EnvFields, MaxEnv) :
                                 \A i, j \in 1..Len(g) : g[i].label = g[j].label => i = j}}
    \cup {Absent}
FewEnvs == {Absent, VList(<<VInt(1)>>)}

ResolveInit ==
  /\ obj \in [cmd : AllCmds, env : FewEnvs, stdin : {Absent}, stdout : {Absent},
              stderr : {Absent}, mustSucceed : {Absent}]
            \cup [cmd : FewCmds, env : AllEnvs, stdin : {Absent}, stdout : {Absent},
                  stderr : {Absent}, mustSucceed : {Absent}]
  /\ pc = "resolve"
  /\ Machine0

\* mkCommand, lines 128-203, applied to the context
ApplyMkCommand ==
  /\ pc = "resolve"
  /\ resolved' = mkCommand(obj)
  /\ pc' = "resolved"
  /\ UNCHANGED <<obj, ctxDone, cancelAt, cmd, proc, exit, pipeHeld, wrote, buf, amb,
                 runCalls, started, runErr, ret>>

ResolveSpec == ResolveInit /\ [][ApplyMkCommand]_vars

\* ----------------------------------------------------------------- claims
Returned == pc = "done"
Ran == runCalls = 1
MustTrue == obj.mustSucceed = VBool(TRUE)
Failed == runErr # <<>>
\* cmd.Run() started a child and waited for it
Waited == started = 1
\* a capture directive as the code reads it: the field is there and is not null
Requested(v) == v.k \notin {"bottom", "null"}
\* Run got past resolution, stdin and mustSucceed
Wired == cmd.stdout # "none"

\* C1 as stated: once Run has waited on the child, Run returns an error and no
\* update exactly when the process failed and mustSucceed is true, the error
\* holding the display form of the command and the process error's text;
\* otherwise an update whose success tells whether the process reported no error.
C1_AsStated ==
  Returned /\ Ran /\ Waited =>
    IF Failed /\ MustTrue
    THEN /\ ret.kind = "error"
         /\ ret.update = NoUpdate
         /\ Contains(ret.err, cmd.doc)
         /\ Contains(ret.err, runErr)
    ELSE /\ ret.kind = "update"
         /\ ret.err = <<>>
         /\ ret.update.success <=> ~Failed

\* C1 amended: as C1, for every Run that reaches cmd.Run(), with the display form of the command in the error as the
\* Go-quoted string %q writes (the display form itself only when it has no
\* character that quoting escapes).
C1_Outcome ==
  Returned /\ Ran =>
    IF Failed /\ MustTrue
    THEN /\ ret.kind = "error"
         /\ ret.update = NoUpdate
         /\ Contains(ret.err, Quote(cmd.doc))
         /\ Contains(ret.err, runErr)
    ELSE /\ ret.kind = "update"
         /\ ret.err = <<>>
         /\ ret.update.success <=> ~Failed

C1_Witness ==
  /\ Returned /\ Ran /\ Failed /\ MustTrue
  /\ ret.kind = "error"
  /\ obj.cmd = VStr(<<"a", TAB, "b">>)

\* mkCommand, stdin wiring and everything else before the mustSucceed read passed
BeforeBoolOk == mkCommand(obj).st = "ok" /\ (Requested(obj.stdin) => ReaderOk(obj.stdin))
NoCapture == ~Requested(obj.stdout) /\ ~Requested(obj.stderr)
OnlySuccess == [success |-> TRUE, keys |-> {}, stdout |-> NoVal, stderr |-> NoVal]

\* C2 as stated: an absent mustSucceed is read as false without an error (a
\* resolvable cmd, a succeeding process and no capture give {success: true}),
\* and the invalid bool value error comes only for a field that is present and
\* not a boolean.
C2_AsStated ==
  Returned =>
    /\ ret.err = ErrBool => obj.mustSucceed.k \notin {"bottom", "bool"}
    /\ obj.mustSucceed = Absent /\ BeforeBoolOk =>
         /\ Ran
         /\ ~Failed /\ NoCapture => ret = RetUpdate(OnlySuccess)

\* C2 amended: a mustSucceed field that is absent from the object Run reads is an
\* invalid bool value error like any value that is not a boolean, returned
\* before cmd.Run(); with mustSucceed false, a resolvable cmd, a succeeding
\* process and no capture, Run returns {success: true} and no error.
C2_MustSucceedRead ==
  Returned /\ BeforeBoolOk =>
    /\ ret.err = ErrBool <=> obj.mustSucceed.k # "bool"
    /\ ret.err = ErrBool => ret.kind = "error" /\ ~Ran /\ started = 0
    /\ obj.mustSucceed = VBool(FALSE) /\ ~Failed /\ NoCapture =>
         Ran /\ ret = RetUpdate(OnlySuccess)

C2_Witness ==
  /\ Returned /\ BeforeBoolOk
  /\ obj.mustSucceed = Absent
  /\ ret = RetErr(ErrBool)

\* one stream of C3: where cmd sends the stream, what reached the caller's
\* handle, and the key of the update
CapturedTo(target, key, s) ==
  /\ target = "buffer"
  /\ amb[s] = <<>>
  /\ ret.kind = "update" => key \in ret.update.keys
PassedThrough(target, key, s) ==
  /\ target = "ambient"
  /\ amb[s] = wrote[s]
  /\ ret.kind = "update" => key \notin ret.update.keys

\* C3 as stated: a stdout or stderr field that is present and null is a capture
\* directive (the stream goes to the buffer, the update has its key); an absent
\* field leaves the stream on the caller's handle and the update without the key.
C3_AsStated ==
  Wired =>
    /\ obj.stdout = Null => CapturedTo(cmd.stdout, "stdout", "out")
    /\ obj.stderr = Null => CapturedTo(cmd.stderr, "stderr", "err")
    /\ obj.stdout = Absent => PassedThrough(cmd.stdout, "stdout", "out")
    /\ obj.stderr = Absent => PassedThrough(cmd.stderr, "stderr", "err")

\* C3 amended: a stdout or stderr field that is present and not null is the
\* capture directive; a field that is absent or null leaves the stream on the
\* caller's handle and the update without the key.
C3_CaptureDirective ==
  Wired =>
    /\ Requested(obj.stdout) => CapturedTo(cmd.stdout, "stdout", "out")
    /\ Requested(obj.stderr) => CapturedTo(cmd.stderr, "stderr", "err")
    /\ obj.stdout \in {Absent, Null} =>
         PassedThrough(cmd.stdout, "stdout", "out")
    /\ obj.stderr \in {Absent, Null} =>
         PassedThrough(cmd.stderr, "stderr", "err")

C3_Witness ==
  /\ Returned /\ ret.kind = "update"
  /\ obj.stdout = Null /\ obj.stderr = VType("string")
  /\ wrote.out # <<>> /\ amb.out = wrote.out
  /\ wrote.err # <<>> /\ buf.err = wrote.err
  /\ ret.update.keys = {"stderr"}

SilentFailure ==
  /\ Returned /\ ret.kind = "update"
  /\ Requested(obj.stderr)
  /\ Failed
  /\ wrote.err = <<>>

Typed(k, b) == IF k \in {"string", "bytes"} THEN [t |-> k, v |-> b] ELSE Nil

StreamShape(d, key, s, content) ==
  IF Requested(d)
  THEN /\ key \in ret.update.keys
       /\ ret.update[key] = Typed(IncompleteKind(d), content)
       /\ amb[s] = <<>>
  ELSE /\ key \notin ret.update.keys
       /\ ret.update[key] = NoVal

Resolved == pc = "resolved"
EnvOk == EnvPart(obj.env).ok

\* C4 as stated: resolution of a string cmd is total: no token gives the empty
\* command error as an ordinary error value; otherwise the binary is the first
\* token, the arguments the remaining tokens in order, the display form the
\* string itself.
C4_Total ==
  Resolved /\ obj.cmd.k = "string" /\ EnvOk =>
    LET tokens == Fields(obj.cmd.s)
    IN IF tokens = <<>> THEN resolved = Fail(ErrEmptyCommand)
       ELSE /\ resolved.st = "ok"
            /\ resolved.bin = Head(tokens)
            /\ resolved.args = Tail(tokens)
            /\ resolved.doc = obj.cmd.s

\* the list of "LABEL=VALUE" strings C8 builds from a struct's fields
AsList(f) == VList([i \in 1..Len(f) |-> VStr(f[i].label \o <<"=">> \o EnvValueText(f[i].v))])

\* C8: an env struct whose values are strings or numbers resolves to the same
\* environment, entry for entry and in the same order, as the list of
\* "LABEL=VALUE" strings of its fields in field order; a list element that is
\* not a string, or a struct value of another kind, is the invalid environment
\* value error.
C8_EnvShapes ==
  Resolved /\ CmdPart(obj.cmd).st = "ok" =>
    /\ obj.env.k = "struct" /\ (\A i \in 1..Len(obj.env.f) :
                                  obj.env.f[i].v.k \in {"string", "int", "float"}) =>
         /\ resolved.st = "ok"
         /\ mkCommand([obj EXCEPT !.env = AsList(obj.env.f)]).st = "ok"
         /\ resolved.env = mkCommand([obj EXCEPT !.env = AsList(obj.env.f)]).env
         /\ Len(resolved.env) = Len(obj.env.f)
         /\ \A i \in 1..Len(obj.env.f) :
              /\ SubSeq(resolved.env[i], 1, Len(obj.env.f[i].label) + 1)
                   = obj.env.f[i].label \o <<"=">>
              /\ obj.env.f[i].v.k = "string" =>
                   resolved.env[i] = obj.env.f[i].label \o <<"=">> \o obj.env.f[i].v.s
    /\ obj.env.k = "list" /\ (\E i \in 1..Len(obj.env.l) : obj.env.l[i].k # "string") =>
         resolved = Fail(ErrEnv)
    /\ obj.env.k = "struct" /\ (\E i \in 1..Len(obj.env.f) :
                                  obj.env.f[i].v.k \notin {"string", "int", "float"}) =>
         resolved = Fail(ErrEnv)

C8_Witness ==
  /\ Resolved
  /\ obj.env = VStruct(<<[label |-> <<"L">>, v |-> VFloat(-15)],
                         [label |-> <<"K">>, v |-> VStr(<<"a">>)]>>)
  /\ resolved.env = << <<"L", "=", "-", "1", ".", "5">>, <<"K", "=", "a">> >>

AllStrings(l) == \A i \in 1..Len(l) : l[i].k = "string"
\* what C9 says a list of strings resolves to
ListResult(l) ==
  /\ resolved.st = "ok"
  /\ resolved.bin = l[1].s
  /\ Len(resolved.args) = Len(l) - 1
  /\ \A i \in 1..(Len(l) - 1) : resolved.args[i] = l[i + 1].s
  /\ resolved.doc = l[1].s \o JoinArgs(Tail(l))

\* C9 as stated: every non-empty list cmd of strings resolves, the binary its
\* first element, the arguments the others in order, the display form the
\* elements joined by single spaces; an empty list is the empty command list
\* error and an element that is not a string fails resolution.
C9_AsStated ==
  Resolved /\ obj.cmd.k = "list" /\ EnvOk =>
    /\ obj.cmd.l # <<>> /\ AllStrings(obj.cmd.l) => ListResult(obj.cmd.l)
    /\ obj.cmd.l = <<>> => resolved = Fail(ErrEmptyList)
    /\ ~AllStrings(obj.cmd.l) => resolved.st = "err"

\* C9 amended: as C9 for a list whose first element is not the empty string (and
\* an env that resolves); a list of strings whose first element is the empty
\* string fails with the empty command error.
C9_ListCmd ==
  Resolved /\ obj.cmd.k = "list" /\ EnvOk =>
    /\ obj.cmd.l # <<>> /\ AllStrings(obj.cmd.l) /\ obj.cmd.l[1].s # <<>> =>
         ListResult(obj.cmd.l)
    /\ obj.cmd.l # <<>> /\ AllStrings(obj.cmd.l) /\ obj.cmd.l[1].s = <<>> =>
         resolved = Fail(ErrEmptyCommand)
    /\ obj.cmd.l = <<>> => resolved = Fail(ErrEmptyList)
    /\ ~AllStrings(obj.cmd.l) => resolved.st = "err"

C9_Witness ==
  /\ Resolved
  /\ obj.cmd = VList(<<VStr(<<"a">>), VStr(<<"b">>), VStr(<<"a">>)>>)
  /\ resolved.args = << <<"b">>, <<"a">> >>
  /\ resolved.doc = <<"a", SP, "b", SP, "a">>

\* ---------------------------------------------- claims about the process
PreErrors == {ErrLookup, ErrEmptyList, ErrEmptyCommand, ErrElement, ErrEnv, ErrInput, ErrBool}

\* C6 as stated: the child is started at most once and only after resolution,
\* stdin wiring and the mustSucceed read succeeded: a Run that returns a
\* resolution, invalid input or invalid bool value error started nothing, and
\* any other Run spawned once (a spawn counted as a call of cmd.Run).
C6_StartOnce ==
  /\ runCalls <= 1 /\ started <= runCalls
  /\ runCalls = 1 => Prepare(obj).st = "ok"
  /\ Returned =>
       IF ret.kind = "error" /\ ret.err \in PreErrors THEN runCalls = 0 ELSE runCalls = 1

ProcessFailure ==
  IF MustTrue THEN ret.kind = "error" /\ ret.err = CommandFailed(cmd.doc, runErr)
  ELSE ret.kind = "update" /\ ~ret.update.success

====
